---- MODULE Spec2Model ----
(***************************************************************************)
(* Turtle, the exam date finder (src/src_code.py).                         *)
(*                                                                         *)
(* A text is a sequence of characters, each a one-character string; the    *)
(* non-ASCII characters of the program's literals are the elements         *)
(* "<bullet>" (U+2022), "<emdash>" (U+2014), "<endash>" (U+2013),         *)
(* "<warn>" (U+26A0), "<vs16>" (U+FE0F), "<check>" (U+2714), "<ok>"        *)
(* (U+2705) and "<book>" (U+1F4D8).  Offsets are Python's, from 0.         *)
(* The regular expressions are matched character by character with the     *)
(* priorities of Python's backtracking matcher.                            *)
(***************************************************************************)
EXTENDS Integers, Sequences, FiniteSets, TLC

VARIABLES text, now_year, pc, ctx_year, clock_read, m_start, results, entries,
          seen, last, sanity_msgs, failed_check, output, second,
          prev_output, prev_clock_read

vars == <<text, now_year, pc, ctx_year, clock_read, m_start, results, entries,
          seen, last, sanity_msgs, failed_check, output, second,
          prev_output, prev_clock_read>>

(***************************************************************************)
(* Characters                                                              *)
(***************************************************************************)
LowerSet ==
    {"a", "b", "c", "d", "e", "f", "g", "h", "i", "j", "k", "l", "m",
     "n", "o", "p", "q", "r", "s", "t", "u", "v", "w", "x", "y", "z"}

UpperSet ==
    {"A", "B", "C", "D", "E", "F", "G", "H", "I", "J", "K", "L", "M",
     "N", "O", "P", "Q", "R", "S", "T", "U", "V", "W", "X", "Y", "Z"}

DigitSet ==
    {"0", "1", "2", "3", "4", "5", "6", "7", "8", "9"}

LowerMap ==
    ("A" :> "a") @@ ("B" :> "b") @@ ("C" :> "c") @@ ("D" :> "d") @@
    ("E" :> "e") @@ ("F" :> "f") @@ ("G" :> "g") @@ ("H" :> "h") @@
    ("I" :> "i") @@ ("J" :> "j") @@ ("K" :> "k") @@ ("L" :> "l") @@
    ("M" :> "m") @@ ("N" :> "n") @@ ("O" :> "o") @@ ("P" :> "p") @@
    ("Q" :> "q") @@ ("R" :> "r") @@ ("S" :> "s") @@ ("T" :> "t") @@
    ("U" :> "u") @@ ("V" :> "v") @@ ("W" :> "w") @@ ("X" :> "x") @@
    ("Y" :> "y") @@ ("Z" :> "z")

UpperMap ==
    ("a" :> "A") @@ ("b" :> "B") @@ ("c" :> "C") @@ ("d" :> "D") @@
    ("e" :> "E") @@ ("f" :> "F") @@ ("g" :> "G") @@ ("h" :> "H") @@
    ("i" :> "I") @@ ("j" :> "J") @@ ("k" :> "K") @@ ("l" :> "L") @@
    ("m" :> "M") @@ ("n" :> "N") @@ ("o" :> "O") @@ ("p" :> "P") @@
    ("q" :> "Q") @@ ("r" :> "R") @@ ("s" :> "S") @@ ("t" :> "T") @@
    ("u" :> "U") @@ ("v" :> "V") @@ ("w" :> "W") @@ ("x" :> "X") @@
    ("y" :> "Y") @@ ("z" :> "Z")

DigitVal ==
    ("0" :> 0) @@ ("1" :> 1) @@ ("2" :> 2) @@ ("3" :> 3) @@ ("4" :> 4) @@
    ("5" :> 5) @@ ("6" :> 6) @@ ("7" :> 7) @@ ("8" :> 8) @@ ("9" :> 9)

DigitChar ==
    <<"0", "1", "2", "3", "4", "5", "6", "7", "8", "9">>

\* "EOS" stands for "no character here" (before the start, after the end).
Ch(s, k) == IF k >= 0 /\ k < Len(s) THEN s[k + 1] ELSE "EOS"

IsLetter(c) == c \in LowerSet \/ c \in UpperSet

IsDigit(c) == c \in DigitSet

\* \s
IsSpace(c) == c \in {" ", "\n", "\t"}

\* \w
IsWord(c) == IsLetter(c) \/ IsDigit(c) \/ c = "_"

\* \b at offset k
WordBoundary(s, k) == IsWord(Ch(s, k - 1)) # IsWord(Ch(s, k))

ToLower(c) == IF c \in UpperSet THEN LowerMap[c] ELSE c

ToUpper(c) == IF c \in LowerSet THEN UpperMap[c] ELSE c

\* str.lower()
Lower(s) == [i \in 1..Len(s) |-> ToLower(s[i])]

\* str.title(): a letter is upper-cased after a non-letter, lower-cased
\* after a letter.
Title(s) ==
    [i \in 1..Len(s) |->
        IF i > 1 /\ IsLetter(s[i - 1]) THEN ToLower(s[i]) ELSE ToUpper(s[i])]

\* s[a:b]
Slice(s, a, b) == IF b > a THEN SubSeq(s, a + 1, b) ELSE <<>>

\* a literal of a pattern compiled with re.IGNORECASE, w in lower case
MatchNoCase(s, k, w) ==
    \A j \in 1..Len(w) : ToLower(Ch(s, k + j - 1)) = w[j]

\* a literal of a case-sensitive pattern; also the "in" operator's test
MatchExact(s, k, w) ==
    \A j \in 1..Len(w) : Ch(s, k + j - 1) = w[j]

\* w in s
Contains(s, w) == \E k \in 0..Len(s) : MatchExact(s, k, w)

EndsWith(s, w) ==
    Len(s) >= Len(w) /\ MatchExact(s, Len(s) - Len(w), w)

RECURSIVE SkipSpace(_, _)
\* \s* from offset k: the offset after the run of whitespace
SkipSpace(s, k) == IF IsSpace(Ch(s, k)) THEN SkipSpace(s, k + 1) ELSE k

RECURSIVE SkipDigits(_, _)
\* \d* from offset k
SkipDigits(s, k) == IF IsDigit(Ch(s, k)) THEN SkipDigits(s, k + 1) ELSE k

RECURSIVE Join(_, _)
\* sep.join(parts)
Join(sep, parts) ==
    IF parts = <<>> THEN <<>>
    ELSE IF Len(parts) = 1 THEN parts[1]
    ELSE parts[1] \o sep \o Join(sep, Tail(parts))

RECURSIVE IntStr(_)
\* str(n), n >= 0
IntStr(n) ==
    IF n < 10 THEN <<DigitChar[n + 1]>>
    ELSE IntStr(n \div 10) \o <<DigitChar[(n % 10) + 1]>>

RECURSIVE StrInt(_)
\* int(s) of a run of digits
StrInt(s) ==
    IF s = <<>> THEN 0
    ELSE 10 * StrInt(SubSeq(s, 1, Len(s) - 1)) + DigitVal[s[Len(s)]]

(***************************************************************************)
(* Regular expressions.  A matcher returns the offset after the match, or  *)
(* -1 when there is none.                                                  *)
(***************************************************************************)
\* the first of two attempts that matches
OrElse(e, other) == IF e >= 0 THEN e ELSE other

\* \.? at offset k
SkipDot(s, k) == IF Ch(s, k) = "." THEN k + 1 ELSE k

\* ,? at offset k
SkipComma(s, k) == IF Ch(s, k) = "," THEN k + 1 ELSE k

\* -? at offset k
SkipHyphen(s, k) == IF Ch(s, k) = "-" THEN k + 1 ELSE k

\* the literal w, any case, at offset k
Literal(s, k, w) == IF MatchNoCase(s, k, w) THEN k + Len(w) ELSE -1

(***************************************************************************)
(* infer_context_year: re.search(r"\b(20\d{2})\b", text)                   *)
(***************************************************************************)
\* r"\b20\d{2}\b" matches at offset k
Year20At(s, k) ==
    /\ WordBoundary(s, k)
    /\ Ch(s, k) = "2"
    /\ Ch(s, k + 1) = "0"
    /\ IsDigit(Ch(s, k + 2))
    /\ IsDigit(Ch(s, k + 3))
    /\ WordBoundary(s, k + 4)

RECURSIVE SearchYear20In(_, _, _)
\* the offset of the first match in lo..hi-1, or -1 (the scan from left to
\* right, by halves)
SearchYear20In(s, lo, hi) ==
    IF lo >= hi THEN -1
    ELSE IF hi = lo + 1 THEN (IF Year20At(s, lo) THEN lo ELSE -1)
    ELSE OrElse(SearchYear20In(s, lo, (lo + hi) \div 2),
                SearchYear20In(s, (lo + hi) \div 2, hi))

\* re.search: the offset of the first match at or after k, or -1
SearchYear20(s, k) == SearchYear20In(s, k, Len(s))

(***************************************************************************)
(* EXAM_PATTERN                                                            *)
(*   \b(mini\s*[- ]?\s*exam|final\s+exam|exam\s*\d+)\b    (IGNORECASE)     *)
(***************************************************************************)
\* mini\s*[- ]?\s*exam.  A space taken by [- ]? is a space \s* would take,
\* so only the hyphen matters.
ExamAltMini(s, i) ==
    IF ~MatchNoCase(s, i, <<"m", "i", "n", "i">>) THEN -1
    ELSE Literal(s, SkipSpace(s, SkipHyphen(s, SkipSpace(s, i + 4))),
                 <<"e", "x", "a", "m">>)

\* final\s+exam
ExamAltFinal(s, i) ==
    IF ~MatchNoCase(s, i, <<"f", "i", "n", "a", "l">>) \/ ~IsSpace(Ch(s, i + 5)) THEN -1
    ELSE Literal(s, SkipSpace(s, i + 5), <<"e", "x", "a", "m">>)

\* \d+ at offset a: greedy, and giving a digit back leaves a digit after
\* the match, where the closing \b fails
Digits(s, a) == IF IsDigit(Ch(s, a)) THEN SkipDigits(s, a) ELSE -1

\* exam\s*\d+
ExamAltNumber(s, i) ==
    IF ~MatchNoCase(s, i, <<"e", "x", "a", "m">>) THEN -1
    ELSE Digits(s, SkipSpace(s, i + 4))

\* the closing \b
ClosingBoundary(s, e) == IF e >= 0 /\ WordBoundary(s, e) THEN e ELSE -1

\* The offset after the match of EXAM_PATTERN that starts at i, or -1:
\* the first alternative, in order, that the closing \b accepts.
ExamMatchEnd(s, i) ==
    IF ~WordBoundary(s, i) THEN -1
    ELSE OrElse(ClosingBoundary(s, ExamAltMini(s, i)),
           OrElse(ClosingBoundary(s, ExamAltFinal(s, i)),
                  ClosingBoundary(s, ExamAltNumber(s, i))))

RECURSIVE ExamSearchIn(_, _, _)
\* the start of the first match in lo..hi-1, or -1
ExamSearchIn(s, lo, hi) ==
    IF lo >= hi THEN -1
    ELSE IF hi = lo + 1 THEN (IF ExamMatchEnd(s, lo) >= 0 THEN lo ELSE -1)
    ELSE OrElse(ExamSearchIn(s, lo, (lo + hi) \div 2),
                ExamSearchIn(s, (lo + hi) \div 2, hi))

\* EXAM_PATTERN.finditer: the start of the first match at or after k, or -1
ExamSearch(s, k) == ExamSearchIn(s, k, Len(s))

(***************************************************************************)
(* DATE_PATTERN                                                            *)
(*   (?:DOW)?\s*MONTH\.?\s*\.?\s*(\d{1,2})(?:,\s*(\d{4}))?   (IGNORECASE)  *)
(***************************************************************************)
\* DOW's alternatives, by their first three letters: what may follow the
\* three letters, in the pattern's order (Tue|Tues, Thu|Thur|Thurs)
DOW ==
    (<<"m", "o", "n">> :> << <<>> >>) @@
    (<<"t", "u", "e">> :> << <<>>, <<"s">> >>) @@
    (<<"w", "e", "d">> :> << <<>> >>) @@
    (<<"t", "h", "u">> :> << <<>>, <<"r">>, <<"r", "s">> >>) @@
    (<<"f", "r", "i">> :> << <<>> >>) @@
    (<<"s", "a", "t">> :> << <<>> >>) @@
    (<<"s", "u", "n">> :> << <<>> >>)

\* MONTH's alternatives, by their first three letters: the optional
\* suffixes in the order a greedy matcher tries them, the longest first
\* (Sep(?:t)?(?:ember)? gives September, Sept, Sepember, Sep)
MONTH ==
    (<<"j", "a", "n">> :> << <<"u", "a", "r", "y">>, <<>> >>) @@
    (<<"f", "e", "b">> :> << <<"r", "u", "a", "r", "y">>, <<>> >>) @@
    (<<"m", "a", "r">> :> << <<"c", "h">>, <<>> >>) @@
    (<<"a", "p", "r">> :> << <<"i", "l">>, <<>> >>) @@
    (<<"m", "a", "y">> :> << <<>> >>) @@
    (<<"j", "u", "n">> :> << <<"e">>, <<>> >>) @@
    (<<"j", "u", "l">> :> << <<"y">>, <<>> >>) @@
    (<<"a", "u", "g">> :> << <<"u", "s", "t">>, <<>> >>) @@
    (<<"s", "e", "p">> :> << <<"t", "e", "m", "b", "e", "r">>, <<"t">>, <<"e", "m", "b", "e", "r">>, <<>> >>) @@
    (<<"o", "c", "t">> :> << <<"o", "b", "e", "r">>, <<>> >>) @@
    (<<"n", "o", "v">> :> << <<"e", "m", "b", "e", "r">>, <<>> >>) @@
    (<<"d", "e", "c">> :> << <<"e", "m", "b", "e", "r">>, <<>> >>)

\* the three characters at offset k, in lower case
Base3(s, k) == <<ToLower(Ch(s, k)), ToLower(Ch(s, k + 1)), ToLower(Ch(s, k + 2))>>

\* (?:,\s*(\d{4}))? after the day that ends at d, the year's digits at y
YearEndAt(s, d, y) ==
    IF Ch(s, d) = "," /\ \A j \in 0..3 : IsDigit(Ch(s, y + j))
    THEN y + 4 ELSE d

\* (?:,\s*(\d{4}))? at offset d
YearEnd(s, d) == YearEndAt(s, d, SkipSpace(s, d + 1))

\* (\d{1,2})(?:,\s*(\d{4}))? at offset k
DayEnd(s, k) ==
    IF ~IsDigit(Ch(s, k)) THEN -1
    ELSE YearEnd(s, IF IsDigit(Ch(s, k + 1)) THEN k + 2 ELSE k + 1)

\* \.?\s*\.?\s*(\d{1,2})(?:,\s*(\d{4}))? at offset k
DayYearEnd(s, k) ==
    DayEnd(s, SkipSpace(s, SkipDot(s, SkipSpace(s, SkipDot(s, k)))))

RECURSIVE MonthRestEnd(_, _, _, _)
\* after a month's three letters at k - 3: its suffixes rest[n], rest[n+1],
\* ... in turn, each with what follows the month
MonthRestEnd(s, k, rest, n) ==
    IF n > Len(rest) THEN -1
    ELSE OrElse(IF MatchNoCase(s, k, rest[n])
                THEN DayYearEnd(s, k + Len(rest[n])) ELSE -1,
                MonthRestEnd(s, k, rest, n + 1))

\* MONTH, its three letters being b, and what follows it
MonthEndOf(s, k, b) ==
    IF b \in DOMAIN MONTH THEN MonthRestEnd(s, k + 3, MONTH[b], 1) ELSE -1

\* MONTH and what follows it, at offset k
MonthEnd(s, k) == MonthEndOf(s, k, Base3(s, k))

RECURSIVE DowRestEnd(_, _, _, _)
\* after a weekday's three letters at j - 3: rest[n], rest[n+1], ... in
\* turn, each with \.?,?\s* and what follows
DowRestEnd(s, j, rest, n) ==
    IF n > Len(rest) THEN -1
    ELSE OrElse(IF MatchNoCase(s, j, rest[n])
                THEN MonthEnd(s, SkipSpace(s, SkipComma(s,
                                    SkipDot(s, j + Len(rest[n])))))
                ELSE -1,
                DowRestEnd(s, j, rest, n + 1))

\* (?:DOW), its three letters being b, and what follows it
DowEndOf(s, i, b) ==
    IF b \in DOMAIN DOW THEN DowRestEnd(s, i + 3, DOW[b], 1) ELSE -1

\* (?:DOW) and what follows it, at offset i
DowEnd(s, i) == DowEndOf(s, i, Base3(s, i))

\* The offset after the match of DATE_PATTERN that starts at i, or -1
DateMatchEnd(s, i) == OrElse(DowEnd(s, i), MonthEnd(s, SkipSpace(s, i)))

RECURSIVE DateSearchIn(_, _, _)
\* the start of the first match in lo..hi-1, or -1
DateSearchIn(s, lo, hi) ==
    IF lo >= hi THEN -1
    ELSE IF hi = lo + 1 THEN (IF DateMatchEnd(s, lo) >= 0 THEN lo ELSE -1)
    ELSE OrElse(DateSearchIn(s, lo, (lo + hi) \div 2),
                DateSearchIn(s, (lo + hi) \div 2, hi))

RECURSIVE DateFinditer(_, _)
\* the match [a, e) and the matches after it
DateMatchesFrom(s, a, e) ==
    <<[start |-> a, end |-> e]>> \o DateFinditer(s, e)

\* the matches from the first one, which starts at a
DateMatchesAt(s, a) ==
    IF a < 0 THEN <<>> ELSE DateMatchesFrom(s, a, DateMatchEnd(s, a))

\* DATE_PATTERN.finditer(s) from offset k: the matches' [start, end), in order
DateFinditer(s, k) == DateMatchesAt(s, DateSearchIn(s, k, Len(s)))

(***************************************************************************)
(* clean_date_str                                                          *)
(***************************************************************************)
\* (?<=\b[A-Za-z]{3})\s*\.\s*(\d{1,2}) at offset k: the offset of the
\* digits, or -1
RepairAt(s, k) ==
    IF /\ k >= 3
       /\ \A j \in 1..3 : IsLetter(Ch(s, k - j))
       /\ WordBoundary(s, k - 3)
       /\ Ch(s, SkipSpace(s, k)) = "."
       /\ IsDigit(Ch(s, SkipSpace(s, SkipSpace(s, k) + 1)))
    THEN SkipSpace(s, SkipSpace(s, k) + 1) ELSE -1

RECURSIVE RepairPeriod(_, _)
\* the replacement ". \1" for the digits s[b:e], and the rest
RepairedFrom(s, b, e) ==
    <<".", " ">> \o Slice(s, b, e) \o RepairPeriod(s, e)

\* one step at offset k, the digits of a match at k being at b
RepairStep(s, k, b) ==
    IF b >= 0
    THEN RepairedFrom(s, b, IF IsDigit(Ch(s, b + 1)) THEN b + 2 ELSE b + 1)
    ELSE <<s[k + 1]>> \o RepairPeriod(s, k + 1)

\* re.sub(r"(?<=\b[A-Za-z]{3})\s*\.\s*(\d{1,2})", r". \1", s), from offset k
RepairPeriod(s, k) ==
    IF k >= Len(s) THEN <<>> ELSE RepairStep(s, k, RepairAt(s, k))

RECURSIVE CollapseSpace(_, _)
\* re.sub(r"\s+", " ", s), from offset k
CollapseSpace(s, k) ==
    IF k >= Len(s) THEN <<>>
    ELSE IF IsSpace(Ch(s, k))
         THEN <<" ">> \o CollapseSpace(s, SkipSpace(s, k))
         ELSE <<s[k + 1]>> \o CollapseSpace(s, k + 1)

StripSet == {" ", ",", ".", ";", "-", "<endash>", "<emdash>"}

RECURSIVE StripChars(_, _)
\* s.strip(chars)
StripChars(s, chars) ==
    IF s = <<>> THEN s
    ELSE IF s[1] \in chars THEN StripChars(Tail(s), chars)
    ELSE IF s[Len(s)] \in chars
         THEN StripChars(SubSeq(s, 1, Len(s) - 1), chars)
    ELSE s

RECURSIVE DropSpaceBeforeComma(_, _)
\* re.sub(r"\s+,", ",", s), from offset k
DropSpaceBeforeComma(s, k) ==
    IF k >= Len(s) THEN <<>>
    ELSE IF IsSpace(Ch(s, k)) /\ Ch(s, SkipSpace(s, k)) = ","
         THEN <<",">> \o DropSpaceBeforeComma(s, SkipSpace(s, k) + 1)
         ELSE <<s[k + 1]>> \o DropSpaceBeforeComma(s, k + 1)

clean_date_str(s) ==
    DropSpaceBeforeComma(
        StripChars(CollapseSpace(RepairPeriod(s, 0), 0), StripSet), 0)

(***************************************************************************)
(* dateparser.parse and datetime.strftime, the two library calls of        *)
(* find_nearest_date and find_exams_strict.  parse is strict: it reads     *)
(* "[weekday[.][,]] month[.] day, year" and nothing else, and refuses a    *)
(* day the month does not have; a string with a second year after the      *)
(* first ("Dec 12, 1999, 2024") is refused.                                *)
(***************************************************************************)
\* a parsed date is [y, m, d]; None is NoDate
NoDate == [y |-> 0, m |-> 0, d |-> 0]

MonthNames ==
    << <<"j", "a", "n", "u", "a", "r", "y">>, <<"f", "e", "b", "r", "u", "a", "r", "y">>, <<"m", "a", "r", "c", "h">>, <<"a", "p", "r", "i", "l">>, <<"m", "a", "y">>, <<"j", "u", "n", "e">>,
       <<"j", "u", "l", "y">>, <<"a", "u", "g", "u", "s", "t">>, <<"s", "e", "p", "t", "e", "m", "b", "e", "r">>, <<"o", "c", "t", "o", "b", "e", "r">>, <<"n", "o", "v", "e", "m", "b", "e", "r">>,
       <<"d", "e", "c", "e", "m", "b", "e", "r">> >>

WeekdayNames ==
    << <<"m", "o", "n", "d", "a", "y">>, <<"t", "u", "e", "s", "d", "a", "y">>, <<"w", "e", "d", "n", "e", "s", "d", "a", "y">>, <<"t", "h", "u", "r", "s", "d", "a", "y">>, <<"f", "r", "i", "d", "a", "y">>,
       <<"s", "a", "t", "u", "r", "d", "a", "y">>, <<"s", "u", "n", "d", "a", "y">> >>

RECURSIVE SkipLetters(_, _)
SkipLetters(s, k) == IF IsLetter(Ch(s, k)) THEN SkipLetters(s, k + 1) ELSE k

\* the month a lower-case word names, or 0
MonthOf(lw) ==
    IF \E m \in 1..12 : lw \in {MonthNames[m], SubSeq(MonthNames[m], 1, 3)}
    THEN CHOOSE m \in 1..12 :
            lw \in {MonthNames[m], SubSeq(MonthNames[m], 1, 3)}
    ELSE IF lw = <<"s", "e", "p", "t">> THEN 9 ELSE 0

\* the month a word names, or 0: a full name, its first three letters, "sept"
MonthNumber(w) == MonthOf(Lower(w))

\* whether a lower-case word, its first three letters being b, is an
\* abbreviation of a day of the week
IsWeekdayAbbr(lw, b) ==
    /\ b \in DOMAIN DOW
    /\ \E n \in 1..Len(DOW[b]) : SubSeq(lw, 4, Len(lw)) = DOW[b][n]

\* whether a lower-case word names a day of the week
IsWeekdayOf(lw) ==
    \/ \E n \in 1..7 : lw = WeekdayNames[n]
    \/ Len(lw) >= 3 /\ IsWeekdayAbbr(lw, SubSeq(lw, 1, 3))

\* whether a word names a day of the week: a full name or an abbreviation
IsWeekdayWord(w) == IsWeekdayOf(Lower(w))

IsLeap(y) == (y % 4 = 0 /\ y % 100 # 0) \/ y % 400 = 0

DaysInMonth(y, m) ==
    IF m = 2 THEN (IF IsLeap(y) THEN 29 ELSE 28)
    ELSE IF m \in {4, 6, 9, 11} THEN 30 ELSE 31

\* the date of a year, a month and a day, if there is one
MakeDate(yr, mon, day) ==
    IF yr >= 1 /\ day >= 1 /\ day <= DaysInMonth(yr, mon)
    THEN [y |-> yr, m |-> mon, d |-> day]
    ELSE NoDate

\* the year, four digits at offset ys that end the string
ParseYear(ds, mon, day, ys) ==
    IF ys + 4 = Len(ds) /\ SkipDigits(ds, ys) = Len(ds)
    THEN MakeDate(StrInt(Slice(ds, ys, ys + 4)), mon, day)
    ELSE NoDate

\* the day, the digits ds[d0:de], a comma, and the year
ParseDayDigits(ds, mon, d0, de) ==
    IF mon > 0 /\ de - d0 \in {1, 2} /\ Ch(ds, de) = ","
    THEN ParseYear(ds, mon, StrInt(Slice(ds, d0, de)), SkipSpace(ds, de + 1))
    ELSE NoDate

\* the day at offset d0 and the year
ParseDay(ds, mon, d0) == ParseDayDigits(ds, mon, d0, SkipDigits(ds, d0))

\* the month, the word ds[ms:me], and the rest
ParseMonthWord(ds, ms, me) ==
    IF me > ms
    THEN ParseDay(ds, MonthNumber(Slice(ds, ms, me)),
                  SkipSpace(ds, SkipDot(ds, me)))
    ELSE NoDate

\* the month at offset ms and the rest
ParseMonth(ds, ms) == ParseMonthWord(ds, ms, SkipLetters(ds, ms))

\* where the month starts, the first word being ds[0:w0]
MonthStart(ds, w0) ==
    IF w0 > 0 /\ IsWeekdayWord(Slice(ds, 0, w0))
    THEN SkipSpace(ds, SkipComma(ds, SkipDot(ds, w0)))
    ELSE 0

\* dateparser.parse(date_str)
parse(ds) == ParseMonth(ds, MonthStart(ds, SkipLetters(ds, 0)))

\* days since 0000-03-01
DayNumber(y, m, d) ==
    LET yy == IF m > 2 THEN y ELSE y - 1
        mm == IF m > 2 THEN m - 3 ELSE m + 9
    IN  365 * yy + (yy \div 4) - (yy \div 100) + (yy \div 400)
          + ((153 * mm + 2) \div 5) + d - 1

\* date.weekday(): Monday is 0
Weekday(dt) == (DayNumber(dt.y, dt.m, dt.d) + 2) % 7

\* parsed_dt.strftime("%A, %B %d, %Y")
strftime(dt) ==
    Title(WeekdayNames[Weekday(dt) + 1]) \o <<",", " ">>
      \o Title(MonthNames[dt.m]) \o <<" ">>
      \o (IF dt.d < 10 THEN <<"0">> ELSE <<>>) \o IntStr(dt.d) \o <<",", " ">>
      \o IntStr(dt.y)

(***************************************************************************)
(* infer_context_year and find_nearest_date                                *)
(***************************************************************************)
\* the window radius, find_nearest_date's default argument
Window == 90

\* None, for a string
None == <<"<None>">>

\* str(x) of a string or None, as an f-string renders it
Str(x) == IF x = None THEN <<"N", "o", "n", "e">> ELSE x

HasYearToken(s) == SearchYear20(s, 0) >= 0

\* line 21-22: the year of the match at k, or the clock's
YearOfMatch(s, k, now) ==
    IF k >= 0 THEN StrInt(Slice(s, k, k + 4)) ELSE now

\* infer_context_year(text), with datetime.now().year = now
infer_context_year(s, now) == YearOfMatch(s, SearchYear20(s, 0), now)

Max(a, b) == IF a >= b THEN a ELSE b

Min(a, b) == IF a <= b THEN a ELSE b

Abs(a) == IF a >= 0 THEN a ELSE -a

\* lines 45-52: the matches ms of the snippet as candidates
CandidatesOf(snippet, start, anchor_idx, ms) ==
    [i \in 1..Len(ms) |->
        [abs_start |-> start + ms[i].start,
         abs_end   |-> start + ms[i].end,
         before    |-> start + ms[i].end <= anchor_idx,
         raw       |-> Slice(snippet, ms[i].start, ms[i].end)]]

\* lines 42, 45: the candidates of the snippet that starts at start
CandidatesIn(snippet, start, anchor_idx) ==
    CandidatesOf(snippet, start, anchor_idx, DateFinditer(snippet, 0))

\* line 41: the candidates of text[start:end]
CandidatesBetween(s, start, end, anchor_idx) ==
    CandidatesIn(Slice(s, start, end), start, anchor_idx)

\* lines 39-52: the date candidates of the window around anchor_idx
Candidates(s, anchor_idx) ==
    CandidatesBetween(s, Max(0, anchor_idx - Window),
                      Min(Len(s), anchor_idx + Window), anchor_idx)

BeforeOnly(d) == d.before

\* max(before, key=abs_end): the first of the greatest
MaxByEnd(ds) ==
    ds[CHOOSE i \in 1..Len(ds) :
          \A j \in 1..Len(ds) :
             /\ ds[j].abs_end <= ds[i].abs_end
             /\ (j < i => ds[j].abs_end < ds[i].abs_end)]

\* min(dates, key=abs(abs_start - anchor_idx)): the first of the least
MinByDistance(ds, anchor_idx) ==
    ds[CHOOSE i \in 1..Len(ds) :
          \A j \in 1..Len(ds) :
             /\ Abs(ds[i].abs_start - anchor_idx)
                   <= Abs(ds[j].abs_start - anchor_idx)
             /\ (j < i => Abs(ds[i].abs_start - anchor_idx)
                            < Abs(ds[j].abs_start - anchor_idx))]

\* a slip: the nearest candidate on either side, no preference for before
ChosenNearest(dates, anchor_idx) == MinByDistance(dates, anchor_idx)

AfterOnly(d) == ~d.before

\* the nearest of the candidates after, the last of all without one
NearestAfter(dates, after, anchor_idx) ==
    IF after # <<>> THEN MinByDistance(after, anchor_idx)
    ELSE MaxByEnd(dates)

\* a slip: the preference the other way round, the first candidate after
ChosenAfterFirst(dates, anchor_idx) ==
    NearestAfter(dates, SelectSeq(dates, AfterOnly), anchor_idx)

\* lines 58-61: the last of the candidates before, the nearest without one
LastBefore(dates, before, anchor_idx) ==
    IF before # <<>> THEN MaxByEnd(before)
    ELSE MinByDistance(dates, anchor_idx)

\* lines 57-61
Chosen(dates, anchor_idx) ==
    LastBefore(dates, SelectSeq(dates, BeforeOnly), anchor_idx)

\* a slip: the year is never filled in
DateStrNoBackfill(raw, year) == clean_date_str(raw)

\* lines 64-65
WithYear(date_str, year) ==
    IF ~HasYearToken(date_str)
    THEN date_str \o <<",", " ">> \o IntStr(year)
    ELSE date_str

\* lines 63-65
DateStr(raw, year) == WithYear(clean_date_str(raw), year)

\* chosen when there is no candidate
NoCandidate == [abs_start |-> -1, abs_end |-> -1, before |-> FALSE, raw |-> <<>>]

\* lines 67-68
Parsed(dates, chosen, date_str) ==
    [parsed |-> parse(date_str), date_str |-> date_str,
     dates |-> dates, chosen |-> chosen]

\* lines 63-68
ParsedChosen(dates, chosen, year) ==
    Parsed(dates, chosen, DateStr(chosen.raw, year))

\* lines 54-68
Nearest(dates, anchor_idx, year) ==
    IF dates = <<>>
    THEN [parsed |-> NoDate, date_str |-> None, dates |-> dates,
          chosen |-> NoCandidate]
    ELSE ParsedChosen(dates, Chosen(dates, anchor_idx), year)

\* find_nearest_date(text, anchor_idx, ctx_year): parsed and date_str, and
\* with them the candidates and the chosen one
find_nearest_date(s, anchor_idx, year) ==
    Nearest(Candidates(s, anchor_idx), anchor_idx, year)
(***************************************************************************)
(* find_exams_strict                                                       *)
(***************************************************************************)
SpaceSet == {" ", "\n", "\t"}

\* line 74: not text or not text.strip()
IsBlankFirstOnly(s) == s = <<>>

IsBlank(s) == s = <<>> \/ StripChars(s, SpaceSet) = <<>>

\* line 81: re.sub(r"\s+", " ", m.group(0).strip())
Label(s, a, e) == CollapseSpace(StripChars(Slice(s, a, e), SpaceSet), 0)

\* a slip: the key keeps the label's case
KeyCaseSensitive(label, raw_dt) == <<label, raw_dt>>

\* lines 82, 85: (label_norm, raw_dt)
Key(label, raw_dt) == <<Lower(label), raw_dt>>

\* a slip: the marker only when there is a date string
RenderLineNoMarkerForNone(label, parsed_dt, raw_dt) ==
    IF parsed_dt # NoDate
    THEN <<"<bullet>", " ">> \o Title(label) \o <<" ", "<emdash>", " ">> \o strftime(parsed_dt)
    ELSE IF raw_dt = None
    THEN <<"<bullet>", " ">> \o Title(label) \o <<" ", "<emdash>", " ">> \o Str(raw_dt)
    ELSE <<"<bullet>", " ">> \o Title(label) \o <<" ", "<emdash>", " ">> \o Str(raw_dt)
           \o <<" ", "(", "d", "a", "t", "e", " ", "p", "a", "r", "s", "e", " ", "u", "n", "c", "e", "r", "t", "a", "i", "n", ")">>

\* lines 90-94
RenderLine(label, parsed_dt, raw_dt) ==
    IF parsed_dt # NoDate
    THEN <<"<bullet>", " ">> \o Title(label) \o <<" ", "<emdash>", " ">> \o strftime(parsed_dt)
    ELSE <<"<bullet>", " ">> \o Title(label) \o <<" ", "<emdash>", " ">> \o Str(raw_dt)
           \o <<" ", "(", "d", "a", "t", "e", " ", "p", "a", "r", "s", "e", " ", "u", "n", "c", "e", "r", "t", "a", "i", "n", ")">>

\* line 100: any("exam" in r.lower() for r in results)
HasExam(rs) == \E i \in 1..Len(rs) : Contains(Lower(rs[i]), <<"e", "x", "a", "m">>)

MonthAbbr ==
    { <<"J", "a", "n">>, <<"F", "e", "b">>, <<"M", "a", "r">>, <<"A", "p", "r">>, <<"M", "a", "y">>, <<"J", "u", "n">>, <<"J", "u", "l">>,
      <<"A", "u", "g">>, <<"S", "e", "p">>, <<"O", "c", "t">>, <<"N", "o", "v">>, <<"D", "e", "c">> }

\* line 104: any(re.search(r"Jan|Feb|...|Dec", r) for r in results)
HasMonth(rs) ==
    \E i \in 1..Len(rs) : \E w \in MonthAbbr : Contains(rs[i], w)

\* str(e) of the AssertionError of line 100, an assert with no message
AssertionText1 == <<>>

\* str(e) of the AssertionError of line 104, an assert with no message
AssertionText2 == <<>>

\* line 108
FailureNote(e) == <<"<warn>", "<vs16>", " ", "S", "a", "n", "i", "t", "y", " ", "c", "h", "e", "c", "k", " ", "f", "a", "i", "l", "e", "d", ":", " ">> \o e

WARNING == <<"<warn>", "<vs16>", " ", "C", "o", "u", "l", "d", " ", "n", "o", "t", " ", "e", "x", "t", "r", "a", "c", "t", " ", "t", "e", "x", "t", " ", "f", "r", "o", "m", " ", "t", "h", "e", " ", "f", "i", "l", "e", ".">>

NO_EXAMS == <<"<ok>", " ", "N", "o", " ", "e", "x", "a", "m", "s", " ", "w", "i", "t", "h", " ", "d", "a", "t", "e", "s", " ", "f", "o", "u", "n", "d", ".">>

\* a slip: the report whatever the results
FinalOutputAlwaysReport(rs, msgs) ==
    <<"<book>", " ", "E", "x", "a", "m", "s", " ", "F", "o", "u", "n", "d", ":", "\n">> \o Join(<<"\n">>, rs) \o <<"\n", "\n">>
       \o Join(<<" ", "|", " ">>, msgs)

\* lines 110-113
FinalOutput(rs, msgs) ==
    IF rs = <<>> THEN NO_EXAMS
    ELSE <<"<book>", " ", "E", "x", "a", "m", "s", " ", "F", "o", "u", "n", "d", ":", "\n">> \o Join(<<"\n">>, rs) \o <<"\n", "\n">>
           \o Join(<<" ", "|", " ">>, msgs)

\* a slip: the set of keys outlives the call
StaleSeen == seen

\* line 78: seen = set()
FreshSeen == {}

(***************************************************************************)
(* The documents                                                           *)
(***************************************************************************)
MaxTokens == 2

MaxTicks == 1

\* datetime.now().year at the first submission
BaseYear == 2026

TokMiniOct == <<"M", "i", "n", "i", "-", "E", "x", "a", "m", " ", "1", " ", "w", "i", "l", "l", " ", "b", "e", " ", "o", "n", " ", "O", "c", "t", ".", " ", "5", ".", " ">>

TokFinalDec == <<"F", "i", "n", "a", "l", " ", "E", "x", "a", "m", ":", " ", "D", "e", "c", " ", "1", "2", ",", " ", "2", "0", "2", "4", ".">>

TokExam2 == <<"e", "x", "a", "m", " ", "2", " ">>

TokExam2Caps == <<"E", "X", "A", "M", " ", " ", "2", " ", "-", " ">>

TokFarNov ==
    <<"s", "e", "e", " ", "t", "h", "e", " ", "c", "o", "u", "r", "s", "e", " ", "p", "a", "g", "e", " ", "f", "o", "r", " ", "r", "o", "o", "m", " ", "a", "n", "d", " ", "t", "i", "m", "e", ";", " ", "b", "r", "i", "n", "g", " ", "a", " ", "p", "e", "n", "c", "i", "l", " ", "a", "n", "d", " ", "y", "o", "u", "r", " ", "s", "t", "u", "d", "e", "n", "t", " ", "c", "a", "r", "d", "s", ".", " ", "N", "o", "v", " ", "3", "0", ",", " ", "2", "0", "2", "3", " ">>

TokBlank == <<" ", "\n">>

TokTuesDec == <<"T", "u", "e", "s", ".", ",", " ", "d", "e", "c", " ", ".", " ", "3", "1", ",", " ", "1", "9", "9", "9", ":", " ", "m", "i", "n", "i", " ", "e", "x", "a", "m", "3", ";", " ">>

TokQuizFeb == <<"Q", "u", "i", "z", " ", "o", "n", " ", "f", "e", "b", " ", "3", "0", ";", " ">>

TokOctFinal == <<"o", "c", "t", ".", "9", " ", "f", "i", "n", "a", "l", " ", " ", "e", "x", "a", "m", " ">>

Tokens ==
    {TokMiniOct, TokFinalDec, TokExam2, TokExam2Caps, TokFarNov, TokBlank,
     TokTuesDec, TokQuizFeb, TokOctFinal}

\* the documents and each of them with one more token
OneMore(shorter) == shorter \cup {d \o t : d \in shorter, t \in Tokens}

RECURSIVE DocsOf(_)
\* the documents of at most n tokens
DocsOf(n) == IF n = 0 THEN {<<>>} ELSE OneMore(DocsOf(n - 1))

\* what extract_text may return
Docs == DocsOf(MaxTokens)

(***************************************************************************)
(* The state machine: one submission is Begin or ExtractionEmpty, then     *)
(* the loop of lines 80-94 one keyword occurrence at a time, the two       *)
(* checks, and the return.  m_start is m.start() of the match the          *)
(* iterator of line 80 yields next, -1 when it has no more.                *)
(***************************************************************************)
NoLast ==
    [anchor |-> -1, label |-> <<>>, dates |-> <<>>, chosen |-> NoCandidate,
     parsed |-> NoDate, date_str |-> None, dup |-> FALSE]

Init ==
    /\ text \in Docs
    /\ now_year = BaseYear
    /\ pc = "idle"
    /\ ctx_year = 0
    /\ clock_read = 0
    /\ m_start = -1
    /\ results = <<>>
    /\ entries = <<>>
    /\ seen = {}
    /\ last = NoLast
    /\ sanity_msgs = <<>>
    /\ failed_check = 0
    /\ output = <<>>
    /\ second = FALSE
    /\ prev_output = <<>>
    /\ prev_clock_read = 0

\* lines 73-75: no usable text
ExtractionEmpty ==
    /\ pc = "idle"
    /\ IsBlank(text)
    /\ output' = WARNING
    /\ pc' = "done"
    /\ ctx_year' = 0
    /\ clock_read' = 0
    /\ m_start' = -1
    /\ results' = <<>>
    /\ entries' = <<>>
    /\ seen' = {}
    /\ last' = NoLast
    /\ sanity_msgs' = <<>>
    /\ failed_check' = 0
    /\ UNCHANGED <<text, now_year, second, prev_output, prev_clock_read>>

\* lines 77-78
Begin ==
    /\ pc = "idle"
    /\ ~IsBlank(text)
    /\ ctx_year' = infer_context_year(text, now_year)
    /\ clock_read' = IF HasYearToken(text) THEN 0 ELSE now_year
    /\ results' = <<>>
    /\ entries' = <<>>
    /\ seen' = FreshSeen
    /\ m_start' = ExamSearch(text, 0)
    /\ last' = NoLast
    /\ sanity_msgs' = <<>>
    /\ failed_check' = 0
    /\ output' = <<>>
    /\ pc' = "scan"
    /\ UNCHANGED <<text, now_year, second, prev_output, prev_clock_read>>

\* lines 82-85: the occurrence, its label and its date
Occurrence(a, e, label, r) ==
    [anchor |-> a, end |-> e, label |-> label, r |-> r,
     key |-> Key(label, r.date_str)]

\* lines 81, 83 for the occurrence text[a:e]
ResolveMatch(a, e) ==
    Occurrence(a, e, Label(text, a, e),
               find_nearest_date(text, a, ctx_year))

\* lines 80-85 for the keyword occurrence that starts at a
Resolve(a) == ResolveMatch(a, ExamMatchEnd(text, a))

\* lines 86-87: the key was seen, continue
SkipDuplicate ==
    /\ pc = "scan"
    /\ m_start >= 0
    /\ \E m \in {Resolve(m_start)} :
           /\ m.key \in seen
           /\ m_start' = ExamSearch(text, m.end)
           /\ last' = [anchor |-> m.anchor, label |-> m.label,
                       dates |-> m.r.dates, chosen |-> m.r.chosen,
                       parsed |-> m.r.parsed, date_str |-> m.r.date_str,
                       dup |-> TRUE]
    /\ UNCHANGED <<text, now_year, pc, ctx_year, clock_read, results,
                   entries, seen, sanity_msgs, failed_check, output, second,
                   prev_output, prev_clock_read>>

\* lines 88-94: a new key, one more line
EmitEntry ==
    /\ pc = "scan"
    /\ m_start >= 0
    /\ \E m \in {Resolve(m_start)} :
           /\ m.key \notin seen
           /\ seen' = seen \cup {m.key}
           /\ results' = Append(results,
                            RenderLine(m.label, m.r.parsed, m.r.date_str))
           /\ entries' = Append(entries,
                            [label |-> m.label, displayString |-> m.r.date_str,
                             parsedDateTime |-> m.r.parsed,
                             anchor |-> m.anchor])
           /\ m_start' = ExamSearch(text, m.end)
           /\ last' = [anchor |-> m.anchor, label |-> m.label,
                       dates |-> m.r.dates, chosen |-> m.r.chosen,
                       parsed |-> m.r.parsed, date_str |-> m.r.date_str,
                       dup |-> FALSE]
    /\ UNCHANGED <<text, now_year, pc, ctx_year, clock_read, sanity_msgs,
                   failed_check, output, second, prev_output,
                   prev_clock_read>>

\* the loop of line 80 is over; line 97
LoopEnd ==
    /\ pc = "scan"
    /\ m_start < 0
    /\ sanity_msgs' = <<>>
    /\ failed_check' = 0
    /\ pc' = "check1"
    /\ UNCHANGED <<text, now_year, ctx_year, clock_read, m_start, results,
                   entries, seen, last, output, second, prev_output,
                   prev_clock_read>>

\* lines 100-101
Check1Pass ==
    /\ pc = "check1"
    /\ HasExam(results)
    /\ sanity_msgs' = Append(sanity_msgs, <<"<check>", " ", "F", "o", "u", "n", "d", " ", "a", "t", " ", "l", "e", "a", "s", "t", " ", "o", "n", "e", " ", "e", "x", "a", "m">>)
    /\ pc' = "check2"
    /\ UNCHANGED <<text, now_year, ctx_year, clock_read, m_start, results,
                   entries, seen, last, failed_check, output, second,
                   prev_output, prev_clock_read>>

\* lines 100, 107-108
Check1Fail ==
    /\ pc = "check1"
    /\ ~HasExam(results)
    /\ sanity_msgs' = Append(sanity_msgs, FailureNote(AssertionText1))
    /\ failed_check' = 1
    /\ pc' = "return"
    /\ UNCHANGED <<text, now_year, ctx_year, clock_read, m_start, results,
                   entries, seen, last, output, second, prev_output,
                   prev_clock_read>>

\* lines 104-105
Check2Pass ==
    /\ pc = "check2"
    /\ HasMonth(results)
    /\ sanity_msgs' = Append(sanity_msgs, <<"<check>", " ", "D", "a", "t", "e", "s", " ", "l", "o", "o", "k", " ", "v", "a", "l", "i", "d">>)
    /\ pc' = "return"
    /\ UNCHANGED <<text, now_year, ctx_year, clock_read, m_start, results,
                   entries, seen, last, failed_check, output, second,
                   prev_output, prev_clock_read>>

\* lines 104, 107-108
Check2Fail ==
    /\ pc = "check2"
    /\ ~HasMonth(results)
    /\ sanity_msgs' = Append(sanity_msgs, FailureNote(AssertionText2))
    /\ failed_check' = 2
    /\ pc' = "return"
    /\ UNCHANGED <<text, now_year, ctx_year, clock_read, m_start, results,
                   entries, seen, last, output, second, prev_output,
                   prev_clock_read>>

\* lines 110-113
Return ==
    /\ pc = "return"
    /\ output' = FinalOutput(results, sanity_msgs)
    /\ pc' = "done"
    /\ UNCHANGED <<text, now_year, ctx_year, clock_read, m_start, results,
                   entries, seen, last, sanity_msgs, failed_check, second,
                   prev_output, prev_clock_read>>

\* line 125: the same document is submitted a second time
Resubmit ==
    /\ pc = "done"
    /\ ~second
    /\ second' = TRUE
    /\ prev_output' = output
    /\ prev_clock_read' = clock_read
    /\ pc' = "idle"
    /\ UNCHANGED <<text, now_year, ctx_year, clock_read, m_start, results,
                   entries, seen, last, sanity_msgs, failed_check, output>>

\* the calendar year changes between the two submissions (line 22 reads
\* it once in each)
Tick ==
    /\ pc = "done"
    /\ ~second
    /\ now_year < BaseYear + MaxTicks
    /\ now_year' = now_year + 1
    /\ UNCHANGED <<text, pc, ctx_year, clock_read, m_start, results, entries,
                   seen, last, sanity_msgs, failed_check, output, second,
                   prev_output, prev_clock_read>>

Next ==
    \/ ExtractionEmpty
    \/ Begin
    \/ SkipDuplicate
    \/ EmitEntry
    \/ LoopEnd
    \/ Check1Pass
    \/ Check1Fail
    \/ Check2Pass
    \/ Check2Fail
    \/ Return
    \/ Resubmit
    \/ Tick

Spec == Init /\ [][Next]_vars

(***************************************************************************)
(* The claims                                                              *)
(***************************************************************************)
\* "Mini-Exam 1 will be on Oct. 5. Final Exam: Dec 12, 2024."
Scenario == TokMiniOct \o TokFinalDec

\* C1, as stated: for the scenario text, with ContextYear 2024, the run ends
\* with exactly two entries, "Mini Exam 1" on Saturday, October 05, 2024 and
\* "Final Exam" on Thursday, December 12, 2024.
C1_ScenarioAsClaimed ==
    (text = Scenario /\ pc = "done") =>
        /\ ctx_year = 2024
        /\ results = << <<"<bullet>", " ", "M", "i", "n", "i", " ", "E", "x", "a", "m", " ", "1", " ", "<emdash>", " ", "S", "a", "t", "u", "r", "d", "a", "y", ",", " ", "O", "c", "t", "o", "b", "e", "r", " ", "0", "5", ",", " ", "2", "0", "2", "4">>,
                        <<"<bullet>", " ", "F", "i", "n", "a", "l", " ", "E", "x", "a", "m", " ", "<emdash>", " ", "T", "h", "u", "r", "s", "d", "a", "y", ",", " ", "D", "e", "c", "e", "m", "b", "e", "r", " ", "1", "2", ",", " ", "2", "0", "2", "4">> >>

\* C1, amended: for the scenario text, with ContextYear 2024, the run ends
\* with exactly two entries: "Mini-Exam" (the matched phrase, which has no
\* number) on Saturday, October 05, 2024, and "Final Exam" on the same
\* October 05, 2024, the candidate that ends before its anchor.
C1_Scenario ==
    (text = Scenario /\ pc = "done") =>
        /\ ctx_year = 2024
        /\ Len(entries) = 2
        /\ entries[1].parsedDateTime = [y |-> 2024, m |-> 10, d |-> 5]
        /\ entries[2].parsedDateTime = [y |-> 2024, m |-> 10, d |-> 5]
        /\ results = << <<"<bullet>", " ", "M", "i", "n", "i", "-", "E", "x", "a", "m", " ", "<emdash>", " ", "S", "a", "t", "u", "r", "d", "a", "y", ",", " ", "O", "c", "t", "o", "b", "e", "r", " ", "0", "5", ",", " ", "2", "0", "2", "4">>,
                        <<"<bullet>", " ", "F", "i", "n", "a", "l", " ", "E", "x", "a", "m", " ", "<emdash>", " ", "S", "a", "t", "u", "r", "d", "a", "y", ",", " ", "O", "c", "t", "o", "b", "e", "r", " ", "0", "5", ",", " ", "2", "0", "2", "4">> >>

C1_Witness ==
    /\ text = Scenario
    /\ pc = "done"
    /\ Len(entries) = 2
    /\ Len(last.dates) = 2

\* C2: for an anchor with candidates, exactly one candidate is chosen: when
\* some candidate ends at or before the anchor, the one of those with the
\* largest end offset, even when a candidate after the anchor is closer;
\* otherwise the one whose start offset is nearest to the anchor.
C2_NearestBefore ==
    last.dates # <<>> =>
        LET ds     == last.dates
            a      == last.anchor
            c      == last.chosen
            before == {i \in 1..Len(ds) : ds[i].abs_end <= a}
        IN  /\ Cardinality({i \in 1..Len(ds) : ds[i] = c}) = 1
            /\ before # {} =>
                  /\ c.abs_end <= a
                  /\ \A i \in before : ds[i].abs_end <= c.abs_end
            /\ before = {} =>
                  \A i \in 1..Len(ds) :
                     Abs(c.abs_start - a) <= Abs(ds[i].abs_start - a)

\* a candidate before the anchor is chosen although one after it is closer
C2_Witness ==
    /\ last.dates # <<>>
    /\ last.chosen.abs_end <= last.anchor
    /\ \E i \in 1..Len(last.dates) :
          /\ last.dates[i].abs_start > last.anchor
          /\ last.dates[i].abs_start - last.anchor
                < last.anchor - last.chosen.abs_end

\* the deduplication key of the i-th emitted entry
EntryKey(i) == <<Lower(entries[i].label), entries[i].displayString>>

\* C3: no two emitted entries share the same (lowercased label,
\* displayString) pair; an occurrence that resolves to a pair already emitted
\* is dropped, the earlier entry stays, and the entries are in the order of
\* their keyword occurrences, one rendered line each.
C3_NoDuplicateEntries ==
    /\ Len(results) = Len(entries)
    /\ \A i, j \in 1..Len(entries) :
          i < j => /\ EntryKey(i) # EntryKey(j)
                   /\ entries[i].anchor < entries[j].anchor
    /\ last.anchor >= 0 =>
          IF last.dup
          THEN /\ \E i \in 1..Len(entries) :
                     /\ EntryKey(i) = <<Lower(last.label), last.date_str>>
                     /\ entries[i].anchor < last.anchor
               /\ \A i \in 1..Len(entries) : entries[i].anchor # last.anchor
          ELSE /\ entries # <<>>
               /\ entries[Len(entries)].anchor = last.anchor

\* a later occurrence was dropped, with another label spelling than the
\* entry it repeats
C3_Witness ==
    /\ pc = "done"
    /\ last.dup
    /\ \E i \in 1..Len(entries) :
          /\ EntryKey(i) = <<Lower(last.label), last.date_str>>
          /\ entries[i].label # last.label

\* C4: every emitted entry has a non-null displayString, also the entry of
\* an occurrence whose window holds no date candidate.
C4_DisplayStringNonNull ==
    \A i \in 1..Len(entries) : entries[i].displayString # None

\* C5: an occurrence with no date candidate in its window still gets its
\* entry unless it is a duplicate, with a null parsedDateTime and a line that
\* ends with " (date parse uncertain)"; and a line ends with that marker
\* exactly when its entry's parsedDateTime is null.
C5_UncertainMarker ==
    /\ Len(results) = Len(entries)
    /\ \A i \in 1..Len(entries) :
          EndsWith(results[i], <<" ", "(", "d", "a", "t", "e", " ", "p", "a", "r", "s", "e", " ", "u", "n", "c", "e", "r", "t", "a", "i", "n", ")">>)
             <=> entries[i].parsedDateTime = NoDate
    /\ (last.anchor >= 0 /\ last.dates = <<>> /\ ~last.dup) =>
          /\ entries # <<>>
          /\ entries[Len(entries)].anchor = last.anchor
          /\ entries[Len(entries)].parsedDateTime = NoDate
          /\ EndsWith(results[Len(results)], <<" ", "(", "d", "a", "t", "e", " ", "p", "a", "r", "s", "e", " ", "u", "n", "c", "e", "r", "t", "a", "i", "n", ")">>)

\* an occurrence with no candidate got its line, after one with a date
C5_Witness ==
    /\ pc = "done"
    /\ last.anchor >= 0
    /\ last.dates = <<>>
    /\ ~last.dup
    /\ EndsWith(results[Len(results)], <<" ", "(", "d", "a", "t", "e", " ", "p", "a", "r", "s", "e", " ", "u", "n", "c", "e", "r", "t", "a", "i", "n", ")">>)

\* empty or whitespace only
WhitespaceOnly(s) == \A i \in 1..Len(s) : IsSpace(s[i])

\* C6: for an empty or whitespace-only text the run returns the warning and
\* stops at once: no context year is inferred, no keyword matched, no entry
\* built, no sanity check run.
C6_ExtractionEmpty ==
    WhitespaceOnly(text) =>
        /\ pc \in {"idle", "done"}
        /\ pc = "done" => output = WARNING
        /\ ctx_year = 0
        /\ clock_read = 0
        /\ m_start = -1
        /\ last = NoLast
        /\ results = <<>>
        /\ entries = <<>>
        /\ seen = {}
        /\ sanity_msgs = <<>>
        /\ failed_check = 0

C6_Witness ==
    /\ text # <<>>
    /\ WhitespaceOnly(text)
    /\ pc = "done"
    /\ output = WARNING

\* no offset of s starts a keyword
NoKeyword(s) == \A k \in 0..(Len(s) - 1) : ExamMatchEnd(s, k) < 0

\* C7: for a text that is not blank and has no keyword match the output is
\* exactly "No exams with dates found.", with no header, line or note,
\* whatever dates the text contains.
C7_EmptyResult ==
    (pc = "done" /\ ~WhitespaceOnly(text) /\ NoKeyword(text)) =>
        output = NO_EXAMS

\* a text with dates and no keyword
C7_Witness ==
    /\ pc = "done"
    /\ ~WhitespaceOnly(text)
    /\ NoKeyword(text)
    /\ DateFinditer(text, 0) # <<>>
    /\ output = NO_EXAMS

\* C8: the displayString of a chosen candidate is its cleaned text when that
\* holds a 4-digit year beginning with "20", and else the cleaned text
\* followed by ", <ContextYear>"; so it always holds a year, it shows the
\* ContextYear when the candidate had no year, and a date parsed from a
\* backfilled string has the ContextYear as its year.
C8_YearBackfill ==
    last.dates # <<>> =>
        LET cleaned == clean_date_str(last.chosen.raw)
            suffix  == <<",", " ">> \o IntStr(ctx_year)
        IN  /\ HasYearToken(cleaned) => last.date_str = cleaned
            /\ ~HasYearToken(cleaned) =>
                  /\ last.date_str = cleaned \o suffix
                  /\ EndsWith(last.date_str, IntStr(ctx_year))
                  /\ last.parsed # NoDate => last.parsed.y = ctx_year
            /\ HasYearToken(last.date_str)

\* a candidate with no year, filled with the year found in the text and
\* parsed
C8_Witness ==
    /\ last.dates # <<>>
    /\ ~HasYearToken(clean_date_str(last.chosen.raw))
    /\ ctx_year # now_year
    /\ last.parsed # NoDate
    /\ last.parsed.y = ctx_year

\* C9, as stated: the second run on the same text returns what the first
\* returned, for every text.
C9_SameOutputAsClaimed ==
    (pc = "done" /\ second) => output = prev_output

\* C9, amended: the second run on the same text returns what the first
\* returned when the text holds a 4-digit token beginning with "20" or the
\* calendar year is the same in both runs: the output is a function of the
\* text and, for a text with no such token, of the current year; nothing is
\* carried from one run to the next.
C9_SameOutput ==
    (pc = "done" /\ second
       /\ (HasYearToken(text) \/ clock_read = prev_clock_read)) =>
        output = prev_output

\* a second run in a later year, of a text with a year, with a report
C9_Witness ==
    /\ pc = "done"
    /\ second
    /\ now_year # BaseYear
    /\ HasYearToken(text)
    /\ results # <<>>
    /\ output = prev_output

\* the prefix of a failure note
FAILED_PREFIX == <<"<warn>", "<vs16>", " ", "S", "a", "n", "i", "t", "y", " ", "c", "h", "e", "c", "k", " ", "f", "a", "i", "l", "e", "d", ":", " ">>

\* a failure note that says something after its prefix
Describes(note) ==
    /\ Len(note) > Len(FAILED_PREFIX)
    /\ SubSeq(note, 1, Len(FAILED_PREFIX)) = FAILED_PREFIX

\* C10: in a report the notes are those of the two checks in order: a
\* confirmation for each check that passes, and for the first that fails one
\* failure note that describes which check failed, after which no check is
\* evaluated.
C10_SanityNotes ==
    (pc = "done" /\ results # <<>>) =>
        /\ (HasExam(results) /\ HasMonth(results)) =>
              sanity_msgs = << <<"<check>", " ", "F", "o", "u", "n", "d", " ", "a", "t", " ", "l", "e", "a", "s", "t", " ", "o", "n", "e", " ", "e", "x", "a", "m">>,
                               <<"<check>", " ", "D", "a", "t", "e", "s", " ", "l", "o", "o", "k", " ", "v", "a", "l", "i", "d">> >>
        /\ (HasExam(results) /\ ~HasMonth(results)) =>
              /\ Len(sanity_msgs) = 2
              /\ sanity_msgs[1] = <<"<check>", " ", "F", "o", "u", "n", "d", " ", "a", "t", " ", "l", "e", "a", "s", "t", " ", "o", "n", "e", " ", "e", "x", "a", "m">>
              /\ Describes(sanity_msgs[2])
        /\ ~HasExam(results) =>
              /\ Len(sanity_msgs) = 1
              /\ Describes(sanity_msgs[1])

====
